---- MODULE Spec2Model ----
(***************************************************************************)
(* Model of the query progress store (lib/stores/query-progress-store.ts)  *)
(* and of the ProgressTracker component that feeds it from an EventSource  *)
(* (components/query/ProgressTracker.tsx).                                 *)
(*                                                                         *)
(* Representation of JavaScript values:                                    *)
(*   - an optional value is a sequence of length <= 1: None is undefined,  *)
(*     Some(x) is the value x;                                             *)
(*   - an object used as a key/value bag (metadata) is a set of            *)
(*     <<key, value>> pairs with pairwise distinct keys;                   *)
(*   - Date.now() is the variable now, which never decreases.              *)
(***************************************************************************)
EXTENDS Integers, Sequences, FiniteSets, TLC

VARIABLES
    steps,             \* store: state.steps
    estimatedSeconds,  \* store: state.estimatedSeconds
    now,               \* the value Date.now() returns
    lastCall,          \* history: the last store operation invoked
    prev,              \* history: the store state that operation was applied to
    opCount,           \* number of step/estimate operations since the last initialize/reset
    mounted,           \* tracker: the ProgressTracker component is mounted
    props,             \* tracker: its props { queryId, autoConnect }
    source,            \* tracker: the open EventSource (Some(queryId)), None when there is none
    openSources,       \* tracker: the queryIds of the EventSources that are open
    cleanup,           \* tracker: the last run of the effect returned its cleanup function
    connectionError,   \* tracker: the connectionError state
    msgCount,          \* tracker: messages delivered on the current subscription
    delivered,         \* history: the last message delivered, what its handler did, whether a notice was shown then
    teardown,          \* history: the last teardown of the effect and what it did, until a message is delivered
    log,               \* history: the events fed to the handler since the harness initialized the store
    args,              \* estimator: the function applied and its arguments
    estimatedCost,     \* estimator: the value calculateQueryCost returned, None before the call
    estimatedDuration, \* estimator: the value estimateQueryDuration returned, None before the call
    query,             \* query store: state.query
    sources,           \* query store: state.sources
    llms,              \* query store: state.llms
    options,           \* query store: state.options
    queryCalls,        \* history: the last two query store operations, each with the state it was applied to
    storage,           \* query store: the localStorage item under "query-storage", None when there is none
    optimisticFeedback, \* response card: the optimisticFeedback state, None for null
    mutation,          \* response card: the feedback mutation { status, variables, context }
    responseData,      \* response card: the cached data of the query ["response", id], None when there is none
    shownBefore,       \* history: the active feedback when the last submission was made
    submissions        \* number of feedback submissions made

storeVars == <<steps, estimatedSeconds, now, lastCall, prev, opCount>>

trackerVars == <<mounted, props, source, openSources, cleanup, connectionError, msgCount,
                 delivered, teardown>>

progressVars == <<storeVars, trackerVars, log>>

estimatorVars == <<args, estimatedCost, estimatedDuration>>

queryVars == <<query, sources, llms, options, queryCalls, storage>>

formVars == <<estimatorVars, queryVars>>

feedbackVars == <<optimisticFeedback, mutation, responseData, shownBefore, submissions>>

vars == <<steps, estimatedSeconds, now, lastCall, prev, opCount,
          mounted, props, source, openSources, cleanup, connectionError, msgCount, delivered,
          teardown, log,
          args, estimatedCost, estimatedDuration, query, sources, llms, options, queryCalls,
          storage, optimisticFeedback, mutation, responseData, shownBefore, submissions>>

----------------------------------------------------------------------------
(* Bounds of the model.                                                    *)

MaxTime == 1   \* Date.now() ranges over 0..MaxTime
MaxOps == 3    \* store operations explored after each initialize/reset
MaxMsgs == 2   \* messages delivered on one subscription
MaxLog == 5    \* events the scenario harness feeds to the handler
MaxSources == 2  \* length of the sources list passed to calculateQueryCost
MaxLLMs == 1     \* length of the llms list passed to calculateQueryCost
MaxCount == 6    \* sourcesCount and llmCount passed to estimateQueryDuration range over 0..MaxCount
MaxSubmissions == 3  \* feedback submissions made on one response card

----------------------------------------------------------------------------
(* JavaScript values.                                                      *)

None == <<>>
Some(x) == <<x>>

\* a ?? b
Coalesce(a, b) == IF a # None THEN a ELSE b

Keys(obj) == {p[1] : p \in obj}

\* { ...a, ...b } for optional objects a and b: spreading undefined adds nothing
Spread(a, b) ==
    LET oa == IF a = None THEN {} ELSE a[1]
        ob == IF b = None THEN {} ELSE b[1]
    IN  {p \in oa : p[1] \notin Keys(ob)} \cup ob

\* obj[k] of an optional object, as an optional value
Lookup(m, k) ==
    IF m = None \/ k \notin Keys(m[1]) THEN None
    ELSE Some((CHOOSE p \in m[1] : p[1] = k)[2])

----------------------------------------------------------------------------
(* Inputs.                                                                 *)

StepA == [id |-> "a", label |-> "Step A"]
StepB == [id |-> "b", label |-> "Step B"]
StepC == [id |-> "c", label |-> "Step C"]

\* lists a client passes to initialize
InitLists == {<<StepA>>, <<StepA, StepB>>}

\* ids a client passes to startStep / completeStep / failStep ("zz" is in no list)
OpIds == {Some("a"), Some("b"), Some("zz")}

\* detail / message arguments
Details == {None, Some("timeout")}

\* metadata arguments
MetaArgs == {None, Some({<<"a", 1>>}), Some({<<"b", 2>>}), Some({<<"a", 2>>})}

MetaKeys == {"a", "b"}

\* seconds arguments
SecondsArgs == {30}

----------------------------------------------------------------------------
(* The store's reducers (query-progress-store.ts).                         *)

Ids(list) == {list[i].id : i \in DOMAIN list}

\* mutant: the comparison inverted (step.id !== id)
Matches_negated(step, id) == id # Some(step.id)

\* step.id === id, for an id argument that may be undefined
Matches(step, id) == id = Some(step.id)

\* mutant: the new state omits estimatedSeconds, so set() keeps the old one
initialize_keepsEstimate(list) ==
    [ steps |-> [i \in DOMAIN list |->
                    [ id |-> list[i].id, label |-> list[i].label,
                      detail |-> None, status |-> "idle",
                      startedAt |-> None, completedAt |-> None,
                      metadata |-> None ]],
      estimatedSeconds |-> estimatedSeconds ]

initialize(list) ==
    [ steps |-> [i \in DOMAIN list |->
                    [ id |-> list[i].id, label |-> list[i].label,
                      detail |-> None, status |-> "idle",
                      startedAt |-> None, completedAt |-> None,
                      metadata |-> None ]],
      estimatedSeconds |-> None ]

\* mutant: detail ?? step.detail in place of detail
startStep_keepsDetail(st, id, detail, t) ==
    [ st EXCEPT !.steps = [i \in DOMAIN st.steps |->
        IF Matches(st.steps[i], id)
        THEN [ st.steps[i] EXCEPT !.detail = Coalesce(detail, st.steps[i].detail),
                                  !.status = "active",
                                  !.startedAt = Some(t),
                                  !.completedAt = None ]
        ELSE st.steps[i]] ]

\* mutant: completedAt is not cleared
startStep_keepsCompletedAt(st, id, detail, t) ==
    [ st EXCEPT !.steps = [i \in DOMAIN st.steps |->
        IF Matches(st.steps[i], id)
        THEN [ st.steps[i] EXCEPT !.detail = detail,
                                  !.status = "active",
                                  !.startedAt = Some(t) ]
        ELSE st.steps[i]] ]

\* mutant: the steps that do not match are dropped from the list
startStep_dropsOthers(st, id, detail, t) ==
    [ st EXCEPT !.steps = SelectSeq(
        [i \in DOMAIN st.steps |->
            [ st.steps[i] EXCEPT !.detail = detail,
                                 !.status = "active",
                                 !.startedAt = Some(t),
                                 !.completedAt = None ]],
        LAMBDA s : Matches(s, id)) ]

\* mutant: the restarted step loses its metadata
startStep_clearsMetadata(st, id, detail, t) ==
    [ st EXCEPT !.steps = [i \in DOMAIN st.steps |->
        IF Matches(st.steps[i], id)
        THEN [ st.steps[i] EXCEPT !.detail = detail,
                                  !.status = "active",
                                  !.startedAt = Some(t),
                                  !.completedAt = None,
                                  !.metadata = None ]
        ELSE st.steps[i]] ]

startStep(st, id, detail, t) ==
    [ st EXCEPT !.steps = [i \in DOMAIN st.steps |->
        IF Matches(st.steps[i], id)
        THEN [ st.steps[i] EXCEPT !.detail = detail,
                                  !.status = "active",
                                  !.startedAt = Some(t),
                                  !.completedAt = None ]
        ELSE st.steps[i]] ]

\* mutant: only an active step is completed
completeStep_requiresActive(st, id, metadata, t) ==
    [ st EXCEPT !.steps = [i \in DOMAIN st.steps |->
        IF Matches(st.steps[i], id) /\ st.steps[i].status = "active"
        THEN [ st.steps[i] EXCEPT !.status = "completed",
                                  !.completedAt = Some(t),
                                  !.metadata = Some(Spread(st.steps[i].metadata, metadata)) ]
        ELSE st.steps[i]] ]

\* mutant: the given metadata replaces the step's metadata
completeStep_replacesMetadata(st, id, metadata, t) ==
    [ st EXCEPT !.steps = [i \in DOMAIN st.steps |->
        IF Matches(st.steps[i], id)
        THEN [ st.steps[i] EXCEPT !.status = "completed",
                                  !.completedAt = Some(t),
                                  !.metadata = Some(Spread(None, metadata)) ]
        ELSE st.steps[i]] ]

\* mutant: the time is written to startedAt in place of completedAt
completeStep_stampsStartedAt(st, id, metadata, t) ==
    [ st EXCEPT !.steps = [i \in DOMAIN st.steps |->
        IF Matches(st.steps[i], id)
        THEN [ st.steps[i] EXCEPT !.status = "completed",
                                  !.startedAt = Some(t),
                                  !.metadata = Some(Spread(st.steps[i].metadata, metadata)) ]
        ELSE st.steps[i]] ]

completeStep(st, id, metadata, t) ==
    [ st EXCEPT !.steps = [i \in DOMAIN st.steps |->
        IF Matches(st.steps[i], id)
        THEN [ st.steps[i] EXCEPT !.status = "completed",
                                  !.completedAt = Some(t),
                                  !.metadata = Some(Spread(st.steps[i].metadata, metadata)) ]
        ELSE st.steps[i]] ]

\* mutant: status "completed" in place of "error"
failStep_marksCompleted(st, id, message, t) ==
    [ st EXCEPT !.steps = [i \in DOMAIN st.steps |->
        IF Matches(st.steps[i], id)
        THEN [ st.steps[i] EXCEPT !.status = "completed",
                                  !.detail = Coalesce(message, st.steps[i].detail),
                                  !.completedAt = Some(t) ]
        ELSE st.steps[i]] ]

\* mutant: detail: message in place of message ?? step.detail
failStep_overwritesDetail(st, id, message, t) ==
    [ st EXCEPT !.steps = [i \in DOMAIN st.steps |->
        IF Matches(st.steps[i], id)
        THEN [ st.steps[i] EXCEPT !.status = "error",
                                  !.detail = message,
                                  !.completedAt = Some(t) ]
        ELSE st.steps[i]] ]

\* mutant: completedAt is not written
failStep_noTimestamp(st, id, message, t) ==
    [ st EXCEPT !.steps = [i \in DOMAIN st.steps |->
        IF Matches(st.steps[i], id)
        THEN [ st.steps[i] EXCEPT !.status = "error",
                                  !.detail = Coalesce(message, st.steps[i].detail) ]
        ELSE st.steps[i]] ]

failStep(st, id, message, t) ==
    [ st EXCEPT !.steps = [i \in DOMAIN st.steps |->
        IF Matches(st.steps[i], id)
        THEN [ st.steps[i] EXCEPT !.status = "error",
                                  !.detail = Coalesce(message, st.steps[i].detail),
                                  !.completedAt = Some(t) ]
        ELSE st.steps[i]] ]

\* mutant: set() replaces the state, so the steps are lost
setEstimatedTime_replacesState(st, seconds) ==
    [ steps |-> <<>>, estimatedSeconds |-> seconds ]

setEstimatedTime(st, seconds) == [ st EXCEPT !.estimatedSeconds = seconds ]

\* mutant: only the steps are cleared
reset_keepsEstimate == [ steps |-> <<>>, estimatedSeconds |-> estimatedSeconds ]

reset == [ steps |-> <<>>, estimatedSeconds |-> None ]

----------------------------------------------------------------------------
(* The store as a state machine.                                           *)

Store == [ steps |-> steps, estimatedSeconds |-> estimatedSeconds ]

Call(op, id, detail, metadata, seconds, list) ==
    [ op |-> op, id |-> id, detail |-> detail, metadata |-> metadata,
      seconds |-> seconds, list |-> list, at |-> now ]

NoCall == [ op |-> "none", id |-> None, detail |-> None, metadata |-> None,
            seconds |-> None, list |-> <<>>, at |-> 0 ]

\* set(...): the store takes the reducer's result; the history records the call
Set(next, call) ==
    /\ steps' = next.steps
    /\ estimatedSeconds' = next.estimatedSeconds
    /\ lastCall' = call
    /\ prev' = Store

StoreInit ==
    /\ steps = <<>>
    /\ estimatedSeconds = None
    /\ now = 0
    /\ lastCall = NoCall
    /\ prev = [ steps |-> <<>>, estimatedSeconds |-> None ]
    /\ opCount = 0

Tick ==
    /\ now < MaxTime
    /\ now' = now + 1
    /\ UNCHANGED <<steps, estimatedSeconds, lastCall, prev, opCount>>
    /\ UNCHANGED <<trackerVars, log, formVars, feedbackVars>>

ClientInitialize ==
    \E list \in InitLists :
        /\ Set(initialize(list), Call("initialize", None, None, None, None, list))
        /\ opCount' = 0
        /\ UNCHANGED <<now, trackerVars, log, formVars, feedbackVars>>

ClientStartStep ==
    \E id \in OpIds, detail \in Details :
        /\ opCount < MaxOps
        /\ Set(startStep(Store, id, detail, now),
               Call("startStep", id, detail, None, None, <<>>))
        /\ opCount' = opCount + 1
        /\ UNCHANGED <<now, trackerVars, log, formVars, feedbackVars>>

ClientCompleteStep ==
    \E id \in OpIds, metadata \in MetaArgs :
        /\ opCount < MaxOps
        /\ Set(completeStep(Store, id, metadata, now),
               Call("completeStep", id, None, metadata, None, <<>>))
        /\ opCount' = opCount + 1
        /\ UNCHANGED <<now, trackerVars, log, formVars, feedbackVars>>

ClientFailStep ==
    \E id \in OpIds, message \in Details :
        /\ opCount < MaxOps
        /\ Set(failStep(Store, id, message, now),
               Call("failStep", id, message, None, None, <<>>))
        /\ opCount' = opCount + 1
        /\ UNCHANGED <<now, trackerVars, log, formVars, feedbackVars>>

ClientSetEstimatedTime ==
    \E seconds \in SecondsArgs :
        /\ opCount < MaxOps
        /\ Set(setEstimatedTime(Store, Some(seconds)),
               Call("setEstimatedTime", None, None, None, Some(seconds), <<>>))
        /\ opCount' = opCount + 1
        /\ UNCHANGED <<now, trackerVars, log, formVars, feedbackVars>>

ClientReset ==
    /\ Set(reset, Call("reset", None, None, None, None, <<>>))
    /\ opCount' = 0
    /\ UNCHANGED <<now, trackerVars, log, formVars, feedbackVars>>

----------------------------------------------------------------------------
(* The ProgressTracker component (ProgressTracker.tsx).                    *)

DEFAULT_STEPS ==
    << [id |-> "intent",   label |-> "Refining query intent"],
       [id |-> "openalex", label |-> "Searching OpenAlex"],
       [id |-> "patents",  label |-> "Searching Google Patents"],
       [id |-> "pubmed",   label |-> "Searching PubMed"],
       [id |-> "llm",      label |-> "Analyzing with LLMs"] >>

\* event.data of a message: text that is not JSON ("invalid"), the JSON value
\* null ("null"), or a JSON object ("object") with the fields it carries
Data(json, type, seconds, stepId, status, detail, metadata) ==
    [ json |-> json, type |-> type, seconds |-> seconds, stepId |-> stepId,
      status |-> status, detail |-> detail, metadata |-> metadata ]

InvalidJson == Data("invalid", None, None, None, None, None, None)
JsonNull == Data("null", None, None, None, None, None, None)
EmptyObject == Data("object", None, None, None, None, None, None)
EstimateMsg(seconds) == Data("object", Some("estimate"), seconds, None, None, None, None)
StepMsg(stepId, status, detail, metadata) ==
    Data("object", None, None, stepId, Some(status), detail, metadata)

\* messages the event stream may deliver to a mounted tracker
Messages ==
    { InvalidJson, JsonNull, EmptyObject,
      EstimateMsg(Some(30)), EstimateMsg(None),
      StepMsg(Some("intent"), "active", None, None),
      StepMsg(Some("intent"), "active", Some("timeout"), None),
      StepMsg(Some("intent"), "completed", None, None),
      StepMsg(Some("intent"), "completed", None, Some({<<"a", 1>>})),
      StepMsg(Some("intent"), "error", None, None),
      StepMsg(Some("intent"), "error", Some("timeout"), None),
      StepMsg(Some("intent"), "paused", None, None),
      StepMsg(Some("llm"), "completed", None, None),
      StepMsg(Some("zz"), "active", None, None),
      StepMsg(None, "active", None, None) }

QueryIds == {"q1", "q2"}

\* JSON.parse(event.data): throws on text that is not JSON
JSONparse(data) == [ threw |-> data.json = "invalid", value |-> data ]

\* the record of a store operation invoked by the handler at time t
HandlerCall(op, id, detail, metadata, seconds, t) ==
    [ op |-> op, id |-> id, detail |-> detail, metadata |-> metadata,
      seconds |-> seconds, list |-> <<>>, at |-> t ]

\* mutant: the "completed" and "error" cases exchanged
dispatchStep_swapped(st, payload, t) ==
    IF payload.status = Some("active")
    THEN [ store |-> startStep(st, payload.stepId, payload.detail, t),
           calls |-> << HandlerCall("startStep", payload.stepId, payload.detail,
                                    None, None, t) >> ]
    ELSE IF payload.status = Some("error")
    THEN [ store |-> completeStep(st, payload.stepId, payload.metadata, t),
           calls |-> << HandlerCall("completeStep", payload.stepId, None,
                                    payload.metadata, None, t) >> ]
    ELSE IF payload.status = Some("completed")
    THEN [ store |-> failStep(st, payload.stepId,
                              Coalesce(payload.detail, Some("Step failed")), t),
           calls |-> << HandlerCall("failStep", payload.stepId,
                                    Coalesce(payload.detail, Some("Step failed")),
                                    None, None, t) >> ]
    ELSE [ store |-> st, calls |-> <<>> ]

\* switch (stepPayload.status) { ... } of handleProgressEvent
dispatchStep(st, payload, t) ==
    IF payload.status = Some("active")
    THEN [ store |-> startStep(st, payload.stepId, payload.detail, t),
           calls |-> << HandlerCall("startStep", payload.stepId, payload.detail,
                                    None, None, t) >> ]
    ELSE IF payload.status = Some("completed")
    THEN [ store |-> completeStep(st, payload.stepId, payload.metadata, t),
           calls |-> << HandlerCall("completeStep", payload.stepId, None,
                                    payload.metadata, None, t) >> ]
    ELSE IF payload.status = Some("error")
    THEN [ store |-> failStep(st, payload.stepId,
                              Coalesce(payload.detail, Some("Step failed")), t),
           calls |-> << HandlerCall("failStep", payload.stepId,
                                    Coalesce(payload.detail, Some("Step failed")),
                                    None, None, t) >> ]
    ELSE [ store |-> st, calls |-> <<>> ]

\* handleProgressEvent(payload), run at time t on store state st: the store
\* state it leaves, the store operations it invoked, and whether it threw
\* ("type" in payload throws a TypeError when payload is not an object)
handleProgressEvent(st, payload, t) ==
    IF payload.json # "object"
    THEN [ threw |-> TRUE, store |-> st, calls |-> <<>> ]
    ELSE IF payload.type = Some("estimate")
    THEN [ threw |-> FALSE,
           store |-> setEstimatedTime(st, payload.seconds),
           calls |-> << HandlerCall("setEstimatedTime", None, None, None,
                                    payload.seconds, t) >> ]
    ELSE [ threw |-> FALSE,
           store |-> dispatchStep(st, payload, t).store,
           calls |-> dispatchStep(st, payload, t).calls ]

\* source.onmessage(event): parse and handle inside try, log inside catch
onmessage(st, data, t) ==
    LET parsed == JSONparse(data)
        handled == handleProgressEvent(st, parsed.value, t)
    IN  IF parsed.threw
        THEN [ store |-> st, calls |-> <<>>, caught |-> TRUE ]
        ELSE [ store |-> handled.store, calls |-> handled.calls,
               caught |-> handled.threw ]

\* the body of the effect, run with props p
effect(p) ==
    [ store |-> initialize(DEFAULT_STEPS),
      source |-> IF p.autoConnect THEN Some(p.queryId) ELSE None,
      cleanup |-> p.autoConnect ]

\* what React runs when the effect is torn down: the cleanup function the
\* effect returned (source.close(); reset()), or nothing when it returned none
runCleanup(st, src, registered) ==
    IF registered
    THEN [ store |-> reset, source |-> None, closeCalls |-> 1, resetCalls |-> 1 ]
    ELSE [ store |-> st, source |-> src, closeCalls |-> 0, resetCalls |-> 0 ]

\* the EventSources open after the teardown result c of an effect that held
\* src: source.close() ends the one the cleanup closes over
closeSource(open, src, c) ==
    IF c.closeCalls > 0 THEN open \ {src[i] : i \in DOMAIN src} ELSE open

\* the EventSources open after an effect run with result e: new EventSource(...)
openSource(open, e) == open \cup {e.source[i] : i \in DOMAIN e.source}

NoDelivery == [ data |-> EmptyObject, before |-> reset, calls |-> <<>>,
                caught |-> FALSE, seq |-> 0, notice |-> FALSE, from |-> None ]

NoTeardown == [ kind |-> "none", closeCalls |-> 0, resetCalls |-> 0,
                hadSource |-> FALSE, sourceAfter |-> None, after |-> reset ]

InitializeCall(list) == Call("initialize", None, None, None, None, list)
ResetCall == Call("reset", None, None, None, None, <<>>)

TrackerInit ==
    /\ mounted = FALSE
    /\ props = [ queryId |-> "q1", autoConnect |-> TRUE ]
    /\ source = None
    /\ openSources = {}
    /\ cleanup = FALSE
    /\ connectionError = None
    /\ msgCount = 0
    /\ delivered = NoDelivery
    /\ teardown = NoTeardown
    /\ log = <<>>

\* the component mounts: state is created and the effect runs
Mount ==
    \E q \in QueryIds, ac \in BOOLEAN :
        LET p == [ queryId |-> q, autoConnect |-> ac ]
            e == effect(p)
        IN  /\ ~mounted
            /\ mounted' = TRUE
            /\ props' = p
            /\ connectionError' = None
            /\ Set(e.store, InitializeCall(DEFAULT_STEPS))
            /\ source' = e.source
            /\ openSources' = openSource(openSources, e)
            /\ cleanup' = e.cleanup
            /\ msgCount' = 0
            /\ delivered' = NoDelivery
            /\ teardown' = NoTeardown
            /\ UNCHANGED <<now, opCount, log, formVars, feedbackVars>>

\* queryId or autoConnect changes: the previous effect is torn down and the
\* effect runs again, in one commit
Rerender ==
    \E q \in QueryIds, ac \in BOOLEAN :
        LET p == [ queryId |-> q, autoConnect |-> ac ]
            c == runCleanup(Store, source, cleanup)
            e == effect(p)
        IN  /\ mounted
            /\ p # props
            /\ props' = p
            /\ teardown' = [ kind |-> "rerun", closeCalls |-> c.closeCalls,
                             resetCalls |-> c.resetCalls, hadSource |-> source # None,
                             sourceAfter |-> c.source, after |-> c.store ]
            /\ steps' = e.store.steps
            /\ estimatedSeconds' = e.store.estimatedSeconds
            /\ lastCall' = InitializeCall(DEFAULT_STEPS)
            /\ prev' = c.store
            /\ source' = e.source
            /\ openSources' = openSource(closeSource(openSources, source, c), e)
            /\ cleanup' = e.cleanup
            /\ msgCount' = 0
            /\ delivered' = NoDelivery
            /\ UNCHANGED <<now, opCount, mounted, connectionError, log, formVars, feedbackVars>>

\* the component unmounts: the effect is torn down
Unmount ==
    LET c == runCleanup(Store, source, cleanup)
    IN  /\ mounted
        /\ mounted' = FALSE
        /\ teardown' = [ kind |-> "unmount", closeCalls |-> c.closeCalls,
                         resetCalls |-> c.resetCalls, hadSource |-> source # None,
                         sourceAfter |-> c.source, after |-> c.store ]
        /\ steps' = c.store.steps
        /\ estimatedSeconds' = c.store.estimatedSeconds
        /\ lastCall' = IF c.resetCalls > 0 THEN ResetCall ELSE lastCall
        /\ prev' = IF c.resetCalls > 0 THEN Store ELSE prev
        /\ source' = c.source
        /\ openSources' = closeSource(openSources, source, c)
        /\ cleanup' = FALSE
        /\ msgCount' = 0
        /\ delivered' = NoDelivery
        /\ UNCHANGED <<now, opCount, props, connectionError, log, formVars, feedbackVars>>

\* the EventSource delivers a message
OnMessage ==
    \E data \in Messages, from \in openSources :
        LET r == onmessage(Store, data, now)
        IN  /\ msgCount < MaxMsgs
            /\ msgCount' = msgCount + 1
            /\ connectionError' = None
            /\ steps' = r.store.steps
            /\ estimatedSeconds' = r.store.estimatedSeconds
            /\ lastCall' = IF r.calls # <<>> THEN r.calls[Len(r.calls)] ELSE lastCall
            /\ prev' = IF r.calls # <<>> THEN Store ELSE prev
            /\ delivered' = [ data |-> data, before |-> Store, calls |-> r.calls,
                              caught |-> r.caught, seq |-> msgCount + 1,
                              notice |-> connectionError # None, from |-> Some(from) ]
            /\ teardown' = NoTeardown
            /\ UNCHANGED <<now, opCount, mounted, props, source, openSources, cleanup,
                           log, formVars, feedbackVars>>

\* mutant: the error handler also closes the EventSource
OnError_closesSource ==
    /\ openSources # {}
    /\ connectionError' = Some("Connection interrupted. Attempting to reconnect...")
    /\ source' = None
    /\ openSources' = {}
    /\ UNCHANGED <<storeVars, mounted, props, cleanup, msgCount,
                   delivered, teardown, log, formVars, feedbackVars>>

\* the EventSource reports a connection error
OnError ==
    /\ openSources # {}
    /\ connectionError' = Some("Connection interrupted. Attempting to reconnect...")
    /\ UNCHANGED <<storeVars, mounted, props, source, openSources, cleanup, msgCount,
                   delivered, teardown, log, formVars, feedbackVars>>

\* handleCancel: the POST succeeds, or fails and its message is shown
HandleCancel ==
    \E ok \in BOOLEAN :
        /\ mounted
        /\ connectionError' = IF ok THEN connectionError
                              ELSE Some("Unable to cancel query")
        /\ UNCHANGED <<storeVars, mounted, props, source, openSources, cleanup, msgCount,
                       delivered, teardown, log, formVars, feedbackVars>>

----------------------------------------------------------------------------
(* A harness around the message handler: it initializes the store with a   *)
(* step list of its own and feeds well-formed events to onmessage.         *)

ScenarioSteps == <<StepA, StepB, StepC>>

\* active(a), completed(a), active(b), error(b, "timeout"), estimate(30)
Scenario ==
    << StepMsg(Some("a"), "active", None, None),
       StepMsg(Some("a"), "completed", None, None),
       StepMsg(Some("b"), "active", None, None),
       StepMsg(Some("b"), "error", Some("timeout"), None),
       EstimateMsg(Some(30)) >>

\* the harness feeds the scenario's events, in any order and any number of times
ScenarioEvents == { Scenario[i] : i \in DOMAIN Scenario }

HarnessInitialize ==
    /\ Set(initialize(ScenarioSteps), InitializeCall(ScenarioSteps))
    /\ log' = <<>>
    /\ UNCHANGED <<now, opCount, trackerVars, formVars, feedbackVars>>

HarnessDeliver ==
    \E data \in ScenarioEvents :
        LET r == onmessage(Store, data, now)
        IN  /\ lastCall.op # "none"
            /\ Len(log) < MaxLog
            /\ steps' = r.store.steps
            /\ estimatedSeconds' = r.store.estimatedSeconds
            /\ lastCall' = IF r.calls # <<>> THEN r.calls[Len(r.calls)] ELSE lastCall
            /\ prev' = IF r.calls # <<>> THEN Store ELSE prev
            /\ log' = Append(log, [ data |-> data, at |-> now ])
            /\ UNCHANGED <<now, opCount, trackerVars, formVars, feedbackVars>>

----------------------------------------------------------------------------
(* JavaScript numbers (IEEE 754 binary64) as calculateQueryCost uses them.  *)
(* A natural number of any size is a sequence of limbs, least significant  *)
(* first, each below Base. A double that is not negative is a record       *)
(* [m, e] with value m * 2^e, where m is 0 or a 53-bit significand held in  *)
(* four limbs.                                                             *)

Base == 32768
LimbBits == 15
Precision == 53

BigOfInt(n) == << n % Base, (n \div Base) % Base, n \div (Base * Base) >>

BigIsZero(a) == \A i \in DOMAIN a : a[i] = 0

RECURSIVE BigMulSmallFrom(_, _, _, _)
BigMulSmallFrom(a, k, i, carry) ==
    IF i > Len(a) THEN << carry >>
    ELSE LET v == a[i] * k + carry
         IN  << v % Base >> \o BigMulSmallFrom(a, k, i + 1, v \div Base)

\* a * k for 0 <= k < Base
BigMulSmall(a, k) == BigMulSmallFrom(a, k, 1, 0)

RECURSIVE BigAddFrom(_, _, _, _)
BigAddFrom(a, b, i, carry) ==
    IF i > Len(a) /\ i > Len(b) THEN << carry >>
    ELSE LET v == (IF i <= Len(a) THEN a[i] ELSE 0)
                  + (IF i <= Len(b) THEN b[i] ELSE 0) + carry
         IN  << v % Base >> \o BigAddFrom(a, b, i + 1, v \div Base)

BigAdd(a, b) == BigAddFrom(a, b, 1, 0)

RECURSIVE BigMulFrom(_, _, _)
BigMulFrom(a, b, j) ==
    IF j > Len(b) THEN << >>
    ELSE BigAdd(BigMulSmall(a, b[j]), << 0 >> \o BigMulFrom(a, b, j + 1))

BigMul(a, b) == BigMulFrom(a, b, 1)

RECURSIVE BigDivSmallFrom(_, _, _, _)
BigDivSmallFrom(a, d, i, rem) ==
    IF i = 0 THEN [ q |-> << >>, r |-> rem ]
    ELSE LET cur == rem * Base + a[i]
             rest == BigDivSmallFrom(a, d, i - 1, cur % d)
         IN  [ q |-> Append(rest.q, cur \div d), r |-> rest.r ]

\* quotient and remainder of a by d, for 0 < d < Base
BigDivSmall(a, d) == BigDivSmallFrom(a, d, Len(a), 0)

\* a * 2^k
BigShl(a, k) == [ i \in 1..(k \div LimbBits) |-> 0 ] \o BigMulSmall(a, 2 ^ (k % LimbBits))

\* a \div 2^k, and whether a nonzero remainder was shifted out
BigShr(a, k) ==
    LET n == k \div LimbBits
        low == SubSeq(a, 1, IF n < Len(a) THEN n ELSE Len(a))
        d == BigDivSmall(SubSeq(a, n + 1, Len(a)), 2 ^ (k % LimbBits))
    IN  [ q |-> d.q, sticky |-> d.r # 0 \/ ~BigIsZero(low) ]

BitLength(v) == CHOOSE b \in 0..LimbBits : v < 2 ^ b /\ (b = 0 \/ v >= 2 ^ (b - 1))

BigBits(a) ==
    IF BigIsZero(a) THEN 0
    ELSE LET t == CHOOSE i \in DOMAIN a :
                    a[i] # 0 /\ \A j \in DOMAIN a : j > i => a[j] = 0
         IN  LimbBits * (t - 1) + BitLength(a[t])

RECURSIVE BigCmpFrom(_, _, _)
BigCmpFrom(a, b, i) ==
    IF i = 0 THEN 0
    ELSE LET x == IF i <= Len(a) THEN a[i] ELSE 0
             y == IF i <= Len(b) THEN b[i] ELSE 0
         IN  IF x < y THEN -1 ELSE IF x > y THEN 1 ELSE BigCmpFrom(a, b, i - 1)

BigCmp(a, b) == BigCmpFrom(a, b, IF Len(a) > Len(b) THEN Len(a) ELSE Len(b))

\* the value of a, for a below Base * Base
BigToInt(a) ==
    (IF Len(a) >= 1 THEN a[1] ELSE 0) + (IF Len(a) >= 2 THEN a[2] * Base ELSE 0)

Significand(a) == [ i \in 1..4 |-> IF i <= Len(a) THEN a[i] ELSE 0 ]

Zero == [ m |-> << 0, 0, 0, 0 >>, e |-> 0 ]

\* the double nearest to M * 2^e (plus a fraction of the last bit of M when
\* sticky), ties to the even significand
RoundToDouble(M, e, sticky) ==
    IF BigIsZero(M) THEN Zero
    ELSE LET bits == BigBits(M)
         IN  IF bits <= Precision
             THEN [ m |-> Significand(BigShl(M, Precision - bits)),
                    e |-> e - (Precision - bits) ]
             ELSE LET k == bits - Precision
                      s == BigShr(M, k - 1)
                      h == BigDivSmall(s.q, 2)
                      up == h.r = 1 /\ (sticky \/ s.sticky \/ h.q[1] % 2 = 1)
                      q == IF up THEN BigAdd(h.q, << 1 >>) ELSE h.q
                  IN  IF BigBits(q) > Precision
                      THEN [ m |-> Significand(BigShr(q, 1).q), e |-> e + k + 1 ]
                      ELSE [ m |-> Significand(q), e |-> e + k ]

\* the double nearest to n / d for naturals n and 0 < d < Base: the value of
\* a decimal literal (0.15 is Double(15, 100)), of an integer (Double(n, 1))
\* and of the division of two integers
Double(n, d) ==
    LET r == BigDivSmall(BigShl(BigOfInt(n), 5 * LimbBits), d)
    IN  RoundToDouble(r.q, 0 - 5 * LimbBits, r.r # 0)

\* x + y
Plus(x, y) ==
    IF BigIsZero(x.m) THEN y
    ELSE IF BigIsZero(y.m) THEN x
    ELSE LET e == IF x.e < y.e THEN x.e ELSE y.e
         IN  RoundToDouble(BigAdd(BigShl(x.m, x.e - e), BigShl(y.m, y.e - e)), e, FALSE)

\* x * y
Times(x, y) == RoundToDouble(BigMul(x.m, y.m), x.e + y.e, FALSE)

\* x < y
Less(x, y) ==
    IF BigIsZero(y.m) THEN FALSE
    ELSE IF BigIsZero(x.m) THEN TRUE
    ELSE LET e == IF x.e < y.e THEN x.e ELSE y.e
         IN  BigCmp(BigShl(x.m, x.e - e), BigShl(y.m, y.e - e)) < 0

\* Math.max(x, y)
MathMax(x, y) == IF Less(x, y) THEN y ELSE x

\* x.toFixed(2), as the number of hundredths it prints: the integer n with
\* n / 100 nearest to the exact value of x, the larger one of two
toFixed2(x) ==
    LET k == 0 - x.e
    IN  BigToInt(BigShr(BigAdd(BigMulSmall(x.m, 200), BigShl(<< 1 >>, k)), k + 1).q)

\* parseFloat of a decimal string with two fraction digits
parseFloat(hundredths) == Double(hundredths, 100)

\* Math.round(x): the integer nearest to the exact value of x, the larger one
\* of two
MathRound(x) ==
    IF x.e >= 0 THEN BigToInt(BigShl(x.m, x.e))
    ELSE LET k == 0 - x.e
         IN  BigToInt(BigShr(BigAdd(BigMulSmall(x.m, 2), BigShl(<< 1 >>, k)), k + 1).q)

----------------------------------------------------------------------------
(* The completion percentage the tracker renders (ProgressTracker.tsx).    *)

\* a number the tracker prints: NaN, or the integer value
NaN == [ nan |-> TRUE, value |-> 0 ]

\* Math.round((completedSteps / steps.length) * 100): 0 / 0 is NaN, and so
\* are NaN * 100 and Math.round(NaN)
progressPercent(list) ==
    LET completedSteps == Cardinality({i \in DOMAIN list : list[i].status = "completed"})
    IN  IF Len(list) = 0 THEN NaN
        ELSE [ nan |-> FALSE,
               value |-> MathRound(Times(Double(completedSteps, Len(list)),
                                         Double(100, 1))) ]

----------------------------------------------------------------------------
(* The cost calculator (lib/utils/cost-calculator.ts).                     *)

SOURCE_BASE_COST ==
    { <<"openalex", Double(15, 100)>>, <<"google-patents", Double(25, 100)>>,
      <<"pubmed", Double(1, 10)>>, <<"document-vault", Double(5, 100)>> }

LLM_BASE_COST ==
    { <<"claude", Double(18, 10)>>, <<"gpt4", Double(32, 10)>>,
      <<"gemini", Double(12, 10)>>, <<"ollama", Double(0, 1)>> }

DEPTH_MULTIPLIER ==
    { <<"quick", Double(5, 10)>>, <<"standard", Double(1, 1)>>, <<"deep", Double(26, 10)>> }

MINIMUM_COST == Double(5, 10)

\* list.reduce((total, id) => total + (table[id] ?? fallback), 0), up to element i
RECURSIVE reduceCost(_, _, _, _)
reduceCost(list, table, fallback, i) ==
    IF i = 0 THEN Double(0, 1)
    ELSE Plus(reduceCost(list, table, fallback, i - 1),
              Coalesce(Lookup(Some(table), list[i]), Some(fallback))[1])

\* mutant: the total is not raised to MINIMUM_COST
calculateQueryCost_noMinimum(config) ==
    LET maxResults == Coalesce(config.maxResults, Some(20))[1]
        sourceCost == reduceCost(config.sources, SOURCE_BASE_COST, Double(1, 10),
                                 Len(config.sources))
        llmCost == reduceCost(config.llms, LLM_BASE_COST, Double(1, 1), Len(config.llms))
        resultsMultiplier == MathMax(Double(1, 1), Double(maxResults, 20))
        depthMultiplier == Lookup(Some(DEPTH_MULTIPLIER), config.depth)[1]
        totalCost == Times(Times(Plus(sourceCost, llmCost), depthMultiplier),
                           resultsMultiplier)
    IN  parseFloat(toFixed2(totalCost))

calculateQueryCost(config) ==
    LET maxResults == Coalesce(config.maxResults, Some(20))[1]
        sourceCost == reduceCost(config.sources, SOURCE_BASE_COST, Double(1, 10),
                                 Len(config.sources))
        llmCost == reduceCost(config.llms, LLM_BASE_COST, Double(1, 1), Len(config.llms))
        resultsMultiplier == MathMax(Double(1, 1), Double(maxResults, 20))
        depthMultiplier == Lookup(Some(DEPTH_MULTIPLIER), config.depth)[1]
        totalCost == Times(Times(Plus(sourceCost, llmCost), depthMultiplier),
                           resultsMultiplier)
    IN  parseFloat(toFixed2(MathMax(MINIMUM_COST, totalCost)))

MathMin(a, b) == IF a < b THEN a ELSE b

\* mutant: Math.floor in place of Math.round
estimateQueryDuration_floors(depth, sourcesCount, llmCount) ==
    LET base == IF depth = "quick" THEN 8 ELSE IF depth = "standard" THEN 18 ELSE 45
        sourceAdjustment == MathMin(2 * 12, sourcesCount * 5)
        llmAdjustment == MathMin(2 * 10, 2 * (llmCount * 3))
    IN  (2 * base + sourceAdjustment + llmAdjustment) \div 2

\* The adjustments are counted in halves of a second: every value involved
\* is a multiple of 0.5 far below 2^53, so the doubles are exact.
\* Math.round(x) is floor(x + 0.5).
estimateQueryDuration(depth, sourcesCount, llmCount) ==
    LET base == IF depth = "quick" THEN 8 ELSE IF depth = "standard" THEN 18 ELSE 45
        sourceAdjustment == MathMin(2 * 12, sourcesCount * 5)
        llmAdjustment == MathMin(2 * 10, 2 * (llmCount * 3))
    IN  (2 * base + sourceAdjustment + llmAdjustment + 1) \div 2

\* the arguments of the calls
SourceIds == {"openalex", "google-patents", "pubmed", "document-vault", "arxiv"}

LLMIds == {"claude", "gpt4", "gemini", "ollama", "mistral"}

Depths == {"quick", "standard", "deep"}

MaxResultsArgs == {None, Some(10), Some(20), Some(30), Some(50)}

Lists(S, n) == UNION {[1..k -> S] : k \in 0..n}

Args(fn, srcs, models, depth, maxResults, sourcesCount, llmCount) ==
    [ fn |-> fn, sources |-> srcs, llms |-> models, depth |-> depth,
      maxResults |-> maxResults, sourcesCount |-> sourcesCount, llmCount |-> llmCount ]

NoArgs == Args("none", <<>>, <<>>, "standard", None, 0, 0)

CostArgs ==
    { Args("calculateQueryCost", s, l, d, r, 0, 0) :
        s \in Lists(SourceIds, MaxSources), l \in Lists(LLMIds, MaxLLMs),
        d \in Depths, r \in MaxResultsArgs }

DurationArgs ==
    { Args("estimateQueryDuration", <<>>, <<>>, d, None, s, l) :
        d \in Depths, s \in 0..MaxCount, l \in 0..MaxCount }

\* no function is being applied
EstimatorIdle ==
    /\ args = NoArgs
    /\ estimatedCost = None
    /\ estimatedDuration = None

\* a caller is about to apply one of the two functions
EstimatorInit ==
    /\ args \in CostArgs \cup DurationArgs
    /\ estimatedCost = None
    /\ estimatedDuration = None

CalculateQueryCost ==
    /\ args.fn = "calculateQueryCost"
    /\ estimatedCost = None
    /\ estimatedCost' = Some(calculateQueryCost(args))
    /\ UNCHANGED <<args, estimatedDuration, progressVars, queryVars, feedbackVars>>

EstimateQueryDuration ==
    /\ args.fn = "estimateQueryDuration"
    /\ estimatedDuration = None
    /\ estimatedDuration' =
            Some(estimateQueryDuration(args.depth, args.sourcesCount, args.llmCount))
    /\ UNCHANGED <<args, estimatedCost, progressVars, queryVars, feedbackVars>>

----------------------------------------------------------------------------
(* The query configuration store (lib/stores/query-store.ts). The options  *)
(* object is a set of <<key, value>> pairs.                                *)

DEFAULT_STATE ==
    [ query |-> "",
      sources |-> <<"openalex", "pubmed">>,
      llms |-> <<"claude">>,
      options |-> { <<"searchDepth", "standard">>, <<"maxResults", 20>>,
                    <<"openAccessOnly", FALSE>> } ]

\* list.includes(x)
Includes(list, x) == \E i \in DOMAIN list : list[i] = x

\* list.filter((item) => item !== x)
Without(list, x) == SelectSeq(list, LAMBDA item : item # x)

setQuery(st, q) == [ st EXCEPT !.query = q ]

\* mutant: an id that is present is removed only at its first position
toggleSource_removesFirst(st, id) ==
    [ st EXCEPT !.sources =
        IF Includes(st.sources, id)
        THEN LET i == CHOOSE j \in DOMAIN st.sources :
                        st.sources[j] = id /\ \A k \in 1..(j - 1) : st.sources[k] # id
             IN  SubSeq(st.sources, 1, i - 1) \o SubSeq(st.sources, i + 1, Len(st.sources))
        ELSE Append(st.sources, id) ]

toggleSource(st, id) ==
    [ st EXCEPT !.sources = IF Includes(st.sources, id)
                            THEN Without(st.sources, id)
                            ELSE Append(st.sources, id) ]

toggleLLM(st, id) ==
    [ st EXCEPT !.llms = IF Includes(st.llms, id)
                         THEN Without(st.llms, id)
                         ELSE Append(st.llms, id) ]

setSources(st, list) == [ st EXCEPT !.sources = list ]

setLLMs(st, list) == [ st EXCEPT !.llms = list ]

\* mutant: the given options replace the options object
setOptions_replaces(st, opts) == [ st EXCEPT !.options = opts ]

setOptions(st, opts) == [ st EXCEPT !.options = Spread(Some(st.options), Some(opts)) ]

resetQuery(st) == DEFAULT_STATE

\* arguments of the operations
QuerySourceIds == {"openalex", "pubmed", "arxiv"}

QueryLLMIds == {"claude", "gpt4"}

SourceLists == {<<>>, <<"pubmed", "openalex", "pubmed">>}

LLMLists == {<<"gpt4", "claude", "gpt4">>}

Queries == {"brca1 inhibitors"}

OptionArgs == { {<<"maxResults", 50>>}, {<<"searchDepth", "deep">>, <<"dateFrom", "2024-01-01">>} }

QueryStore == [ query |-> query, sources |-> sources, llms |-> llms, options |-> options ]

\* the persist middleware: the stored item is the text of
\* { state: partialize(state), version: 0 }. An item is a record with
\* json "invalid" for text that is not JSON and "object" for a JSON object,
\* whose state property is an optional object of <<key, value>> pairs.
Item(json, state) == [ json |-> json, state |-> state ]

\* mutant: partialize keeps everything but the options
partialize_omitsOptions(st) == [ k \in DOMAIN st \ {"options"} |-> st[k] ]

\* partialize: (state) => state
partialize(st) == st

\* JSON.stringify of the stored value: the functions of the store are not
\* part of st and no value of st is undefined, so every key is written
JSONstringify(st) == Item("object", Some({ <<k, st[k]>> : k \in DOMAIN st }))

\* setItem("query-storage", ...) after a state change
setItem(st) == Some(JSONstringify(partialize(st)))

\* what getItem and the merge of the middleware make of the stored item:
\* no item, text that is not JSON (JSON.parse throws and the middleware
\* catches it) and an item without state leave the state as created;
\* otherwise { ...current, ...persisted }
hydrate(current, item) ==
    IF item = None \/ item[1].json = "invalid" \/ item[1].state = None THEN current
    ELSE [ k \in DOMAIN current |->
            Coalesce(Lookup(item[1].state, k), Some(current[k]))[1] ]

\* the item after hydration: the middleware writes the merged state back,
\* unless reading the item threw
rehydrated(current, item) ==
    IF item # None /\ item[1].json = "invalid" THEN item
    ELSE setItem(hydrate(current, item))

\* set(...): the store takes the reducer's result; the history keeps the last
\* two calls
SetQueryStore(next, op, arg) ==
    LET call == [ op |-> op, arg |-> arg, before |-> QueryStore ]
    IN  /\ query' = next.query
        /\ sources' = next.sources
        /\ llms' = next.llms
        /\ options' = next.options
        /\ queryCalls' = IF Len(queryCalls) = 2 THEN << queryCalls[2], call >>
                         ELSE Append(queryCalls, call)
        /\ storage' = setItem(next)
        /\ UNCHANGED <<progressVars, estimatorVars, feedbackVars>>

QueryInit ==
    /\ query = DEFAULT_STATE.query
    /\ sources = DEFAULT_STATE.sources
    /\ llms = DEFAULT_STATE.llms
    /\ options = DEFAULT_STATE.options
    /\ queryCalls = <<>>
    /\ storage = rehydrated(DEFAULT_STATE, None)

SetQuery == \E q \in Queries : SetQueryStore(setQuery(QueryStore, q), "setQuery", q)

ToggleSource ==
    \E id \in QuerySourceIds :
        SetQueryStore(toggleSource(QueryStore, id), "toggleSource", id)

ToggleLLM ==
    \E id \in QueryLLMIds : SetQueryStore(toggleLLM(QueryStore, id), "toggleLLM", id)

SetSources ==
    \E list \in SourceLists : SetQueryStore(setSources(QueryStore, list), "setSources", list)

SetLLMs == \E list \in LLMLists : SetQueryStore(setLLMs(QueryStore, list), "setLLMs", list)

SetOptions ==
    \E opts \in OptionArgs : SetQueryStore(setOptions(QueryStore, opts), "setOptions", opts)

ResetQuery == SetQueryStore(resetQuery(QueryStore), "reset", "")

\* items another session, an older build or the user may have left under the key
StoredItems ==
    { None,
      Some(Item("invalid", None)),
      Some(Item("object", None)),
      Some(Item("object", Some({ <<"query", "brca1 inhibitors">> }))),
      Some(Item("object", Some({ <<"options", { <<"maxResults", 50>> }>> }))),
      Some(Item("object", Some({ <<"query", "brca1 inhibitors">>, <<"sources", <<"pubmed">> >>,
                                 <<"llms", <<"gpt4">> >>,
                                 <<"options", { <<"searchDepth", "deep">>, <<"maxResults", 50>>,
                                                <<"openAccessOnly", TRUE>> }>> }))) }

\* a session starts: the store is created with DEFAULT_STATE and the
\* middleware hydrates it from the stored item
StartSession(item) ==
    LET next == hydrate(DEFAULT_STATE, item)
        call == [ op |-> "restart", arg |-> item, before |-> QueryStore ]
    IN  /\ query' = next.query
        /\ sources' = next.sources
        /\ llms' = next.llms
        /\ options' = next.options
        /\ queryCalls' = IF Len(queryCalls) = 2 THEN << queryCalls[2], call >>
                         ELSE Append(queryCalls, call)
        /\ storage' = rehydrated(DEFAULT_STATE, item)
        /\ UNCHANGED <<progressVars, estimatorVars, feedbackVars>>

\* the page is reloaded: the next session reads what this one stored
Restart == StartSession(storage)

\* the page is opened over an item this session did not write
RestartOver == \E item \in StoredItems : StartSession(item)

----------------------------------------------------------------------------
(* The feedback of a response card (ResponseCard).                         *)

FeedbackType == {"like", "dislike", "wrong", "important"}

\* versions of the response the server may return for ["response", id]
ResponseVersions == {1, 2}

Mutation(status, variables, context) ==
    [ status |-> status, variables |-> variables, context |-> context ]

\* const activeFeedback = optimisticFeedback ?? null
activeFeedback == Coalesce(optimisticFeedback, None)

\* feedbackMutation.isPending
isPending == mutation.status = "pending"

FeedbackInit ==
    /\ optimisticFeedback = None
    /\ mutation = Mutation("idle", None, None)
    /\ responseData = None
    /\ shownBefore = None
    /\ submissions = 0

\* a feedback button is clicked (the buttons are disabled while a mutation
\* is pending): feedbackMutation.mutate(type) runs onMutate and starts the POST
Mutate ==
    \E feedback \in FeedbackType :
        /\ ~isPending
        /\ submissions < MaxSubmissions
        /\ submissions' = submissions + 1
        /\ shownBefore' = activeFeedback
        /\ optimisticFeedback' = Some(feedback)
        /\ mutation' = Mutation("pending", Some(feedback), responseData)
        /\ UNCHANGED <<responseData, progressVars, formVars>>

\* the POST answers ok: onSettled invalidates the response query
MutationSucceeds ==
    /\ isPending
    /\ mutation' = [ mutation EXCEPT !.status = "success" ]
    /\ UNCHANGED <<optimisticFeedback, responseData, shownBefore, submissions,
                   progressVars, formVars>>

\* the POST fails or answers not ok: onError, then onSettled
MutationFails ==
    /\ isPending
    /\ mutation' = [ mutation EXCEPT !.status = "error" ]
    /\ optimisticFeedback' = None
    /\ responseData' = IF mutation.context # None THEN mutation.context ELSE responseData
    /\ UNCHANGED <<shownBefore, submissions, progressVars, formVars>>

\* the response query is fetched again (onMutate cancels the fetches under
\* way, so none completes while the mutation is pending)
Refetch ==
    \E version \in ResponseVersions :
        /\ ~isPending
        /\ responseData' = Some(version)
        /\ UNCHANGED <<optimisticFeedback, mutation, shownBefore, submissions,
                       progressVars, formVars>>

----------------------------------------------------------------------------
(* Specifications.                                                         *)

Init == StoreInit /\ TrackerInit /\ EstimatorIdle /\ QueryInit /\ FeedbackInit

\* the store driven directly by a client of its operations
Next ==
    \/ Tick
    \/ ClientInitialize
    \/ ClientStartStep
    \/ ClientCompleteStep
    \/ ClientFailStep
    \/ ClientSetEstimatedTime
    \/ ClientReset

Spec == Init /\ [][Next]_vars

\* the store driven by the ProgressTracker component
NextTracker ==
    \/ Tick
    \/ Mount
    \/ Rerender
    \/ Unmount
    \/ OnMessage
    \/ OnError
    \/ HandleCancel

SpecTracker == Init /\ [][NextTracker]_vars

\* the store driven by the harness around the message handler
NextScenario ==
    \/ Tick
    \/ HarnessInitialize
    \/ HarnessDeliver

SpecScenario == Init /\ [][NextScenario]_vars

\* the two functions of the cost calculator applied to arguments of a caller
NextEstimator ==
    \/ CalculateQueryCost
    \/ EstimateQueryDuration

InitEstimator == StoreInit /\ TrackerInit /\ EstimatorInit /\ QueryInit /\ FeedbackInit

SpecEstimator == InitEstimator /\ [][NextEstimator]_vars

\* the query configuration store driven by a client of its operations
NextQuery ==
    \/ SetQuery
    \/ ToggleSource
    \/ ToggleLLM
    \/ SetSources
    \/ SetLLMs
    \/ SetOptions
    \/ ResetQuery
    \/ Restart

SpecQuery == Init /\ [][NextQuery]_vars

\* sessions of the query configuration store over stored items of any origin
NextSession ==
    \/ RestartOver
    \/ SetQuery
    \/ SetOptions
    \/ ResetQuery

SpecSession == Init /\ [][NextSession]_vars

\* the feedback buttons of one response card and the answers to its submissions
NextFeedback ==
    \/ Mutate
    \/ MutationSucceeds
    \/ MutationFails
    \/ Refetch

SpecFeedback == Init /\ [][NextFeedback]_vars

----------------------------------------------------------------------------
(* Properties.                                                             *)

StepOps == {"startStep", "completeStep", "failStep"}

\* the steps of the previous store state that the last call's id matches
Matched == {i \in DOMAIN prev.steps : lastCall.id = Some(prev.steps[i].id)}

\* the last call was a step operation, so steps and prev.steps are the same list
SameList == lastCall.op \in StepOps \cup {"setEstimatedTime"}

(* C1 *)
\* the store operation the claim assigns to a well-formed event
C1_Operation(st, data, t) ==
    IF data.type = Some("estimate") THEN setEstimatedTime(st, data.seconds)
    ELSE IF data.status = Some("active")
         THEN startStep(st, data.stepId, data.detail, t)
    ELSE IF data.status = Some("completed")
         THEN completeStep(st, data.stepId, data.metadata, t)
    ELSE failStep(st, data.stepId, data.detail, t)

RECURSIVE C1_Replay(_)
C1_Replay(l) ==
    IF l = <<>> THEN initialize(ScenarioSteps)
    ELSE C1_Operation(C1_Replay(SubSeq(l, 1, Len(l) - 1)),
                      l[Len(l)].data, l[Len(l)].at)

C1_Events == [i \in DOMAIN log |-> log[i].data]

\* C1: after the store is initialized and any sequence of events is fed to the
\* handler, the store equals the result of applying, in delivery order, one
\* store operation per event (estimate: setEstimatedTime, active: startStep,
\* completed: completeStep, error: failStep); after initialize([a,b,c]) and
\* active(a), completed(a), active(b), error(b,"timeout"), estimate(30) it is
\* a completed, b error with detail "timeout", c idle, estimatedSeconds 30.
C1_EventsAppliedInOrder ==
    lastCall.op # "none" =>
        /\ Store = C1_Replay(log)
        /\ C1_Events = Scenario =>
            /\ Len(steps) = 3
            /\ steps[1].id = "a" /\ steps[1].status = "completed"
            /\ steps[2].id = "b" /\ steps[2].status = "error"
            /\ steps[2].detail = Some("timeout")
            /\ steps[3].id = "c" /\ steps[3].status = "idle"
            /\ estimatedSeconds = Some(30)

C1_Witness ==
    /\ C1_Events = Scenario
    /\ steps[1].status = "completed"
    /\ steps[2].status = "error"
    /\ log[1].at < log[5].at

(* C2 *)
C2_DefinedEdges ==
    { <<"idle", "active">>, <<"active", "completed">>, <<"active", "error">>,
      <<"completed", "active">>, <<"error", "active">> }

\* C2 as claimed: a step's status changes only along idle->active,
\* active->completed, active->error, completed->active and error->active.
C2_OnlyDefinedEdges ==
    SameList =>
        \A i \in DOMAIN steps :
            prev.steps[i].status # steps[i].status =>
                <<prev.steps[i].status, steps[i].status>> \in C2_DefinedEdges

\* C2 as amended: a step's status is changed only by an operation addressed to
\* its id, and the new status is the operation's own (startStep: active,
\* completeStep: completed, failStep: error) whatever the status before; no
\* step operation returns a step to idle.
C2_StatusSetByOperation ==
    SameList =>
        \A i \in DOMAIN steps :
            prev.steps[i].status # steps[i].status =>
                /\ i \in Matched
                /\ \/ lastCall.op = "startStep" /\ steps[i].status = "active"
                   \/ lastCall.op = "completeStep" /\ steps[i].status = "completed"
                   \/ lastCall.op = "failStep" /\ steps[i].status = "error"

C2_Witness ==
    /\ lastCall.op = "failStep"
    /\ \E i \in Matched :
        prev.steps[i].status = "completed" /\ steps[i].status = "error"

(* C3 *)
\* the two known shapes: {type:"estimate", seconds} and {stepId, status}
C3_WellFormed(data) ==
    /\ data.json = "object"
    /\ \/ data.type = Some("estimate") /\ data.seconds # None
       \/ /\ data.stepId # None
          /\ data.status \in {Some("active"), Some("completed"), Some("error")}

\* C3: a message that is not JSON, or matches neither known shape, causes no
\* state change: steps and estimatedSeconds are as they were before it.
C3_MalformedDropped ==
    (delivered.seq > 0 /\ ~C3_WellFormed(delivered.data)) =>
        Store = delivered.before

C5_StartWithoutDetailKeepsDetail ==
    (lastCall.op = "startStep" /\ lastCall.detail = None) =>
        \A i \in Matched :
            /\ steps[i].detail = prev.steps[i].detail
            /\ steps[i].status = "active"
            /\ steps[i].startedAt = Some(lastCall.at)

\* C5 as amended: startStep(id) without detail clears the matched step's
\* detail, sets status active and records a new startedAt.
C5_StartWithoutDetailClearsDetail ==
    (lastCall.op = "startStep" /\ lastCall.detail = None) =>
        \A i \in Matched :
            /\ steps[i].detail = None
            /\ steps[i].status = "active"
            /\ steps[i].startedAt = Some(lastCall.at)

C5_Witness ==
    /\ lastCall.op = "startStep"
    /\ lastCall.detail = None
    /\ \E i \in Matched :
        /\ prev.steps[i].detail = Some("timeout")
        /\ steps[i].detail = None
        /\ prev.steps[i].startedAt # steps[i].startedAt

(* C6 *)
\* C6: a completed event for a step leaves that step completed and raises
\* nothing, also when no active event for the step came before it.
C6_CompletedWithoutActive ==
    (/\ delivered.seq > 0
     /\ delivered.data.json = "object"
     /\ delivered.data.type # Some("estimate")
     /\ delivered.data.status = Some("completed")) =>
        /\ ~delivered.caught
        /\ \A i \in DOMAIN steps :
            delivered.data.stepId = Some(steps[i].id) =>
                steps[i].status = "completed"

C6_Witness ==
    /\ delivered.seq > 0
    /\ delivered.data.status = Some("completed")
    /\ \E i \in DOMAIN steps :
        /\ delivered.data.stepId = Some(steps[i].id)
        /\ delivered.before.steps[i].status = "idle"
        /\ delivered.before.steps[i].startedAt = None
        /\ steps[i].status = "completed"

(* C7 *)
\* C7: startStep(id, detail) on a matching step of any status sets status
\* active, startedAt to the current time, clears completedAt and sets detail
\* to the given value.
C7_StartStep ==
    lastCall.op = "startStep" =>
        \A i \in Matched :
            /\ steps[i].status = "active"
            /\ steps[i].startedAt = Some(lastCall.at)
            /\ steps[i].completedAt = None
            /\ steps[i].detail = lastCall.detail

C7_Witness ==
    /\ lastCall.op = "startStep"
    /\ lastCall.detail = Some("timeout")
    /\ \E i \in Matched :
        /\ prev.steps[i].status = "error"
        /\ prev.steps[i].completedAt # None
        /\ prev.steps[i].detail = None
        /\ steps[i].status = "active"
        /\ steps[i].startedAt = Some(1)

(* C8 *)
\* C8: completeStep(id, m) leaves the matched step's metadata with, for every
\* key, m's value when m has the key and the previous value otherwise; with
\* no m the previous keys and values are kept.
C8_MetadataMerge ==
    lastCall.op = "completeStep" =>
        \A i \in Matched :
            /\ steps[i].metadata # None
            /\ Keys(steps[i].metadata[1]) \subseteq MetaKeys
            /\ \A k \in MetaKeys :
                Lookup(steps[i].metadata, k) =
                    IF Lookup(lastCall.metadata, k) # None
                    THEN Lookup(lastCall.metadata, k)
                    ELSE Lookup(prev.steps[i].metadata, k)

C8_Witness ==
    /\ lastCall.op = "completeStep"
    /\ lastCall.metadata = Some({<<"b", 2>>})
    /\ \E i \in Matched :
        /\ prev.steps[i].metadata = Some({<<"a", 1>>})
        /\ steps[i].metadata = Some({<<"a", 1>>, <<"b", 2>>})

(* C9 *)
\* C9: failStep(id, message) on a matching step sets status error and
\* completedAt to the current time; detail becomes message when one is given
\* and stays as it was when none is given.
C9_FailStep ==
    lastCall.op = "failStep" =>
        \A i \in Matched :
            /\ steps[i].status = "error"
            /\ steps[i].completedAt = Some(lastCall.at)
            /\ steps[i].detail = IF lastCall.detail # None THEN lastCall.detail
                                 ELSE prev.steps[i].detail

C9_Witness ==
    /\ lastCall.op = "failStep"
    /\ lastCall.detail = None
    /\ \E i \in Matched :
        /\ prev.steps[i].status = "active"
        /\ prev.steps[i].detail = Some("timeout")
        /\ steps[i].status = "error"
        /\ steps[i].detail = Some("timeout")

(* C10 *)
\* C10: startStep, completeStep and failStep with an id that matches no step
\* leave every step, the list's length and order, and estimatedSeconds as
\* they were.
C10_UnmatchedIdNoOp ==
    (lastCall.op \in StepOps /\ Matched = {}) =>
        /\ steps = prev.steps
        /\ estimatedSeconds = prev.estimatedSeconds

C10_Witness ==
    /\ lastCall.op \in StepOps
    /\ Matched = {}
    /\ Len(steps) = 2
    /\ steps[1].status # "idle"
    /\ estimatedSeconds = Some(30)

(* C11 *)
\* C11: initialize(list) replaces the whole state: the steps are the given
\* ids and labels in the given order, each idle with no detail, startedAt,
\* completedAt or metadata, and estimatedSeconds is undefined.
C11_InitializeReplaces ==
    lastCall.op = "initialize" =>
        /\ Len(steps) = Len(lastCall.list)
        /\ \A i \in DOMAIN steps :
            /\ steps[i].id = lastCall.list[i].id
            /\ steps[i].label = lastCall.list[i].label
            /\ steps[i].status = "idle"
            /\ steps[i].detail = None
            /\ steps[i].startedAt = None
            /\ steps[i].completedAt = None
            /\ steps[i].metadata = None
        /\ estimatedSeconds = None

C11_Witness ==
    /\ lastCall.op = "initialize"
    /\ Len(lastCall.list) = 1
    /\ Len(prev.steps) = 2
    /\ prev.estimatedSeconds = Some(30)
    /\ prev.steps[1].status = "completed"
    /\ prev.steps[1].metadata # None
    /\ prev.steps[1].startedAt # None
    /\ Len(steps) = 1

(* C12 *)
\* C12: reset() leaves an empty step list and an undefined estimate, whatever
\* the state it is applied to.
C12_ResetEmpties ==
    lastCall.op = "reset" =>
        /\ steps = <<>>
        /\ estimatedSeconds = None

C12_Witness ==
    /\ lastCall.op = "reset"
    /\ Len(prev.steps) = 2
    /\ prev.steps[2].status = "error"
    /\ prev.estimatedSeconds = Some(30)
    /\ steps = <<>>

(* C13 *)
\* C13: startStep, completeStep, failStep and setEstimatedTime leave the
\* ordered sequence of (id, label) pairs of the step list as it was.
C13_ListFixedBetweenInitializes ==
    SameList =>
        /\ Len(steps) = Len(prev.steps)
        /\ \A i \in DOMAIN steps :
            /\ steps[i].id = prev.steps[i].id
            /\ steps[i].label = prev.steps[i].label

C13_Witness ==
    /\ lastCall.op = "failStep"
    /\ lastCall.id = Some("b")
    /\ Len(prev.steps) = 2
    /\ prev.steps[1].status = "completed"
    /\ steps[2].status = "error"
    /\ steps # prev.steps

(* C14 *)
\* C14: completeStep(id) on a step that startStep(id) left active marks it
\* completed with completedAt not before its startedAt; no completed step
\* has a completedAt before its startedAt.
C14_CompletedNotBeforeStarted ==
    /\ lastCall.op = "completeStep" =>
        \A i \in Matched :
            prev.steps[i].status = "active" =>
                /\ steps[i].status = "completed"
                /\ steps[i].startedAt # None
                /\ steps[i].startedAt = prev.steps[i].startedAt
                /\ steps[i].completedAt # None
                /\ steps[i].completedAt[1] >= steps[i].startedAt[1]
    /\ \A i \in DOMAIN steps :
        (steps[i].status = "completed" /\ steps[i].startedAt # None) =>
            /\ steps[i].completedAt # None
            /\ steps[i].completedAt[1] >= steps[i].startedAt[1]

C14_Witness ==
    /\ lastCall.op = "completeStep"
    /\ lastCall.id = Some("a")
    /\ Len(steps) = 2
    /\ prev.steps[1].status = "active"
    /\ steps[1].startedAt = Some(0)
    /\ steps[1].completedAt = Some(1)
    /\ steps[2].status = "active"
    /\ steps[2].startedAt = Some(1)

(* C16 *)
\* C16: setEstimatedTime(seconds) sets estimatedSeconds to seconds and leaves
\* every step as it was; startStep, completeStep and failStep leave
\* estimatedSeconds as it was.
C16_EstimateIndependentOfSteps ==
    /\ lastCall.op = "setEstimatedTime" =>
        /\ estimatedSeconds = lastCall.seconds
        /\ steps = prev.steps
    /\ lastCall.op \in StepOps => estimatedSeconds = prev.estimatedSeconds

C16_Witness ==
    /\ lastCall.op = "setEstimatedTime"
    /\ prev.estimatedSeconds = None
    /\ estimatedSeconds = Some(30)
    /\ Len(steps) = 2
    /\ steps[1].status = "completed"
    /\ steps[2].status = "active"

(* C15 *)
\* the status a step event of the last delivered message asks for
C15_EventStatus == {"active", "completed", "error"}

\* C15: a step that raises the connection-error or cancel-failure notice
\* leaves steps, estimatedSeconds and the EventSource as they were, and a
\* message delivered while a notice is shown is applied to the store: the
\* addressed step takes the event's status, an estimate sets estimatedSeconds.
C15_NoticeOnly ==
    /\ [][ (connectionError' # connectionError /\ connectionError' # None) =>
            /\ steps' = steps
            /\ estimatedSeconds' = estimatedSeconds
            /\ source' = source
            /\ mounted' = mounted ]_vars
    /\ []( (/\ delivered.seq > 0
            /\ delivered.notice
            /\ delivered.data.json = "object") =>
            /\ ~delivered.caught
            /\ delivered.data.type = Some("estimate") =>
                    estimatedSeconds = delivered.data.seconds
            /\ (/\ delivered.data.type # Some("estimate")
                /\ delivered.data.status # None
                /\ delivered.data.status[1] \in C15_EventStatus) =>
                    \A i \in DOMAIN steps :
                        delivered.data.stepId = Some(steps[i].id) =>
                            steps[i].status = delivered.data.status[1] )

C15_Witness ==
    /\ connectionError = Some("Unable to cancel query")
    /\ source # None
    /\ delivered.seq > 0
    /\ delivered.notice
    /\ delivered.data.status = Some("active")
    /\ delivered.calls # <<>>
    /\ Store # delivered.before
    /\ steps[1].status = "active"

(* C17 *)
\* the cost tables of the claim, in hundredths of a unit
C17_SourceCost(id) ==
    IF id = "openalex" THEN 15 ELSE IF id = "google-patents" THEN 25
    ELSE IF id = "pubmed" THEN 10 ELSE IF id = "document-vault" THEN 5 ELSE 10

C17_ModelCost(id) ==
    IF id = "claude" THEN 180 ELSE IF id = "gpt4" THEN 320
    ELSE IF id = "gemini" THEN 120 ELSE IF id = "ollama" THEN 0 ELSE 100

\* the depth multipliers of the claim, in tenths
C17_DepthMultiplier(depth) ==
    IF depth = "quick" THEN 5 ELSE IF depth = "standard" THEN 10 ELSE 26

RECURSIVE C17_SourceSum(_)
C17_SourceSum(list) ==
    IF list = <<>> THEN 0 ELSE C17_SourceCost(Head(list)) + C17_SourceSum(Tail(list))

RECURSIVE C17_ModelSum(_)
C17_ModelSum(list) ==
    IF list = <<>> THEN 0 ELSE C17_ModelCost(Head(list)) + C17_ModelSum(Tail(list))

\* max(0.5, (sources + models) * depthMultiplier * max(1, maxResults / 20))
\* rounded to hundredths, a half rounded up, computed exactly:
\* the product below is the total in units of 1/200 of a hundredth
C17_Hundredths(a) ==
    LET maxResults == IF a.maxResults = None THEN 20 ELSE a.maxResults[1]
        twentieths == IF maxResults > 20 THEN maxResults ELSE 20
        total == (C17_SourceSum(a.sources) + C17_ModelSum(a.llms))
                    * C17_DepthMultiplier(a.depth) * twentieths
        rounded == (total + 100) \div 200
    IN  IF rounded > 50 THEN rounded ELSE 50

\* C17: calculateQueryCost returns max(0.5, (sum of source costs + sum of
\* model costs) * depthMultiplier * max(1, maxResults / 20)) rounded to two
\* decimals, with the claim's tables and defaults.
C17_CostFormula ==
    (args.fn = "calculateQueryCost" /\ estimatedCost # None) =>
        estimatedCost[1] = Double(C17_Hundredths(args), 100)

C19_Base(depth) == IF depth = "quick" THEN 8 ELSE IF depth = "standard" THEN 18 ELSE 45

\* twice base + min(12, 2.5 * sourcesCount) + min(10, 3 * llmCount)
C19_Halves(depth, sourcesCount, llmCount) ==
    2 * C19_Base(depth)
        + (IF 5 * sourcesCount < 24 THEN 5 * sourcesCount ELSE 24)
        + (IF 6 * llmCount < 20 THEN 6 * llmCount ELSE 20)

\* C19: estimateQueryDuration is base + min(12, 2.5 * sourcesCount)
\* + min(10, 3 * llmCount) rounded to the nearest integer, a half rounded up;
\* it lies between base and base + 22, is base + 22 whenever sourcesCount >= 5
\* and llmCount >= 4, and is 59 for (deep, 3, 2).
C19_DurationFormula ==
    (args.fn = "estimateQueryDuration" /\ estimatedDuration # None) =>
        LET d == estimatedDuration[1]
            h == C19_Halves(args.depth, args.sourcesCount, args.llmCount)
        IN  /\ 2 * d >= h
            /\ 2 * d <= h + 1
            /\ d >= C19_Base(args.depth)
            /\ d <= C19_Base(args.depth) + 22
            /\ (args.sourcesCount >= 5 /\ args.llmCount >= 4) =>
                    d = C19_Base(args.depth) + 22
            /\ (args.depth = "deep" /\ args.sourcesCount = 3 /\ args.llmCount = 2) =>
                    d = 59

C19_Witness ==
    /\ args.fn = "estimateQueryDuration"
    /\ args.depth = "deep"
    /\ args.sourcesCount = 3
    /\ args.llmCount = 2
    /\ estimatedDuration = Some(59)

(* C20 *)
Members(list) == {list[i] : i \in DOMAIN list}

\* the last two calls were the same toggle with the same id
C20_ToggledTwice ==
    /\ Len(queryCalls) = 2
    /\ queryCalls[1].op \in {"toggleSource", "toggleLLM"}
    /\ queryCalls[2].op = queryCalls[1].op
    /\ queryCalls[2].arg = queryCalls[1].arg

\* C20: after toggleSource(id) twice in a row the sources list has the
\* members it had before the two calls, and its elements other than id are
\* in the order they had; likewise toggleLLM(id) twice and the llms list.
C20_ToggleTwice ==
    C20_ToggledTwice =>
        LET id == queryCalls[1].arg
            before == IF queryCalls[1].op = "toggleSource"
                      THEN queryCalls[1].before.sources ELSE queryCalls[1].before.llms
            after == IF queryCalls[1].op = "toggleSource" THEN sources ELSE llms
        IN  /\ Members(after) = Members(before)
            /\ SelectSeq(after, LAMBDA x : x # id) = SelectSeq(before, LAMBDA x : x # id)

C20_Witness ==
    /\ C20_ToggledTwice
    /\ queryCalls[1].op = "toggleSource"
    /\ queryCalls[1].arg = "pubmed"
    /\ queryCalls[1].before.sources = <<"pubmed", "openalex", "pubmed">>
    /\ queryCalls[2].before.sources = <<"openalex">>
    /\ sources = <<"openalex", "pubmed">>

(* C21 *)
NoDuplicates(list) == \A i, j \in DOMAIN list : i # j => list[i] # list[j]

\* C21: in every state reachable from the defaults by the store's operations,
\* neither sources nor llms holds an identifier twice.
C21_NoDuplicateIds ==
    /\ NoDuplicates(sources)
    /\ NoDuplicates(llms)

(* C22 *)
OptionKeys == {"searchDepth", "maxResults", "openAccessOnly", "dateFrom", "dateTo"}

\* C22: setOptions(partial) gives every key of partial the value partial has
\* for it, leaves every other option key with the value (or absence) it had,
\* and leaves query, sources and llms as they were.
C22_SetOptionsMerges ==
    (queryCalls # <<>> /\ queryCalls[Len(queryCalls)].op = "setOptions") =>
        LET call == queryCalls[Len(queryCalls)]
        IN  /\ \A k \in OptionKeys :
                Lookup(Some(options), k) =
                    IF k \in Keys(call.arg) THEN Lookup(Some(call.arg), k)
                    ELSE Lookup(Some(call.before.options), k)
            /\ Keys(options) \subseteq OptionKeys
            /\ query = call.before.query
            /\ sources = call.before.sources
            /\ llms = call.before.llms

C22_Witness ==
    /\ queryCalls # <<>>
    /\ queryCalls[Len(queryCalls)].op = "setOptions"
    /\ queryCalls[Len(queryCalls)].arg = {<<"maxResults", 50>>}
    /\ Lookup(Some(queryCalls[Len(queryCalls)].before.options), "dateFrom") = Some("2024-01-01")
    /\ Lookup(Some(queryCalls[Len(queryCalls)].before.options), "maxResults") = Some(20)
    /\ Lookup(Some(options), "dateFrom") = Some("2024-01-01")
    /\ Lookup(Some(options), "maxResults") = Some(50)
    /\ query # ""


(***************************************************************************)
(* C23: when a session starts over a stored item that is missing, corrupt  *)
(* or partial, every field the item does not hold (query, sources, llms,   *)
(* or a single option such as searchDepth) has its default value in the    *)
(* hydrated store.                                                         *)
(***************************************************************************)
StoredField(item, field) ==
    IF item = None \/ item[1].json = "invalid" THEN None
    ELSE Lookup(item[1].state, field)

StoredOption(item, key) ==
    IF StoredField(item, "options") = None THEN None
    ELSE Lookup(StoredField(item, "options"), key)

C23_MissingFieldsDefault ==
    (queryCalls # <<>> /\ queryCalls[Len(queryCalls)].op = "restart") =>
        LET item == queryCalls[Len(queryCalls)].arg
        IN  /\ StoredField(item, "query") = None => query = DEFAULT_STATE.query
            /\ StoredField(item, "sources") = None => sources = DEFAULT_STATE.sources
            /\ StoredField(item, "llms") = None => llms = DEFAULT_STATE.llms
            /\ \A key \in Keys(DEFAULT_STATE.options) :
                    StoredOption(item, key) = None =>
                        Lookup(Some(options), key) = Lookup(Some(DEFAULT_STATE.options), key)

(***************************************************************************)
(* C24: after every operation of the query store the item stored under     *)
(* "query-storage" is a JSON object whose state holds the current query,   *)
(* sources, llms and options, and a restart leaves the store in the state  *)
(* it had before the restart.                                              *)
(***************************************************************************)
C24_StorageHoldsState ==
    /\ storage # None
    /\ storage[1].json = "object"
    /\ Lookup(storage[1].state, "query") = Some(query)
    /\ Lookup(storage[1].state, "sources") = Some(sources)
    /\ Lookup(storage[1].state, "llms") = Some(llms)
    /\ Lookup(storage[1].state, "options") = Some(options)
    /\ (queryCalls # <<>> /\ queryCalls[Len(queryCalls)].op = "restart") =>
            QueryStore = queryCalls[Len(queryCalls)].before

C24_Witness ==
    /\ queryCalls # <<>>
    /\ queryCalls[Len(queryCalls)].op = "restart"
    /\ query # DEFAULT_STATE.query
    /\ sources # DEFAULT_STATE.sources
    /\ llms # DEFAULT_STATE.llms
    /\ Lookup(Some(options), "dateFrom") = Some("2024-01-01")
    /\ QueryStore = queryCalls[Len(queryCalls)].before

(***************************************************************************)
(* C25: an error step event without a detail field leaves the step it      *)
(* names in status error with completedAt set and with the detail the      *)
(* step had before the event.                                              *)
(***************************************************************************)
C25_ErrorEventKeepsDetail ==
    (/\ delivered.seq > 0
     /\ delivered.data.json = "object"
     /\ delivered.data.type # Some("estimate")
     /\ delivered.data.status = Some("error")
     /\ delivered.data.detail = None) =>
        \A i \in DOMAIN steps \cap DOMAIN delivered.before.steps :
            delivered.data.stepId = Some(steps[i].id) =>
                /\ steps[i].status = "error"
                /\ steps[i].completedAt # None
                /\ steps[i].detail = delivered.before.steps[i].detail

(***************************************************************************)
(* C26: in every state of the progress store an idle step has neither      *)
(* startedAt nor completedAt, an active step has startedAt and no          *)
(* completedAt, and a step has completedAt exactly when its status is      *)
(* completed or error.                                                     *)
(***************************************************************************)
C26_TimestampsMatchStatus ==
    \A i \in DOMAIN steps :
        /\ steps[i].status = "idle" =>
                steps[i].startedAt = None /\ steps[i].completedAt = None
        /\ steps[i].status = "active" =>
                steps[i].startedAt # None /\ steps[i].completedAt = None
        /\ steps[i].completedAt # None <=> steps[i].status \in {"completed", "error"}

C26_Witness ==
    /\ Len(steps) = 2
    /\ steps[1].status = "active"
    /\ steps[1].startedAt # None
    /\ steps[1].completedAt = None
    /\ steps[2].status = "error"
    /\ steps[2].startedAt = None
    /\ steps[2].completedAt # None

(***************************************************************************)
(* C27: startStep, completeStep and failStep leave every step whose id is  *)
(* not the argument as it was, and of a matching step they leave id and    *)
(* label, and: completeStep detail and startedAt, failStep metadata and    *)
(* startedAt, startStep metadata.                                          *)
(***************************************************************************)
C27_OnlyDeclaredFields ==
    lastCall.op \in StepOps =>
        /\ DOMAIN steps = DOMAIN prev.steps
        /\ \A i \in DOMAIN prev.steps \ Matched : steps[i] = prev.steps[i]
        /\ \A i \in Matched :
            /\ steps[i].id = prev.steps[i].id
            /\ steps[i].label = prev.steps[i].label
            /\ lastCall.op = "completeStep" =>
                    /\ steps[i].detail = prev.steps[i].detail
                    /\ steps[i].startedAt = prev.steps[i].startedAt
            /\ lastCall.op = "failStep" =>
                    /\ steps[i].metadata = prev.steps[i].metadata
                    /\ steps[i].startedAt = prev.steps[i].startedAt
            /\ lastCall.op = "startStep" =>
                    steps[i].metadata = prev.steps[i].metadata

C27_Witness ==
    /\ lastCall.op = "startStep"
    /\ Len(steps) = 2
    /\ \E i \in Matched :
        /\ prev.steps[i].status = "completed"
        /\ prev.steps[i].metadata = Some({<<"a", 1>>})
        /\ steps[i].status = "active"
        /\ steps[i].metadata = Some({<<"a", 1>>})
    /\ \E j \in DOMAIN steps \ Matched : steps[j].status = "error"

(***************************************************************************)
(* C28: when the tracked run id changes, the teardown closes the previous  *)
(* subscription and resets the store before the effect initializes it      *)
(* again; at most one EventSource is open in any state, and a delivered    *)
(* message comes from the EventSource of the run the tracker shows.        *)
(***************************************************************************)
C28_OneSubscription == Cardinality(openSources) <= 1

C28_NoStaleEvent == delivered.seq > 0 => delivered.from = Some(props.queryId)

C29_Completed == Cardinality({i \in DOMAIN steps : steps[i].status = "completed"})

C29_Rounded(v) ==
    /\ 2 * Len(steps) * v <= 200 * C29_Completed + Len(steps)
    /\ 200 * C29_Completed + Len(steps) < 2 * Len(steps) * (v + 1)

C29_PercentOfNonEmpty ==
    steps # <<>> =>
        /\ ~progressPercent(steps).nan
        /\ progressPercent(steps).value \in 0..100
        /\ C29_Rounded(progressPercent(steps).value)
        /\ progressPercent(steps).value = 100 =>
                \A i \in DOMAIN steps : steps[i].status = "completed"

C29_PercentInRange ==
    /\ ~progressPercent(steps).nan
    /\ progressPercent(steps).value \in 0..100
    /\ steps # <<>> => C29_Rounded(progressPercent(steps).value)
    /\ progressPercent(steps).value = 100 =>
            \A i \in DOMAIN steps : steps[i].status = "completed"

(***************************************************************************)
(* C30: after a feedback submission has failed, the active feedback of the *)
(* response card is the one that was shown before that submission, a       *)
(* feedback submitted earlier included.                                    *)
(***************************************************************************)
C30_FailureRollsBack ==
    mutation.status = "error" => activeFeedback = shownBefore

====
